---- MODULE Spec2Model ----
(***************************************************************************)
(* PyVerse: the NuGet registry client (src/nuget/client.py) and the        *)
(* linker (src/linker.py): its dependency-update scan update_packages, its *)
(* manifest stage update_dependencies and its project-file parser          *)
(* _resolve_project.                                                       *)
(*                                                                         *)
(* Specifications: Spec (tasks sharing one client), SpecCatalog (one       *)
(* caller, a registry serving one root document), SpecFair (callers        *)
(* followed through resolution, under fairness), SpecLinker and SpecScan   *)
(* (update_packages on its own client), SpecDependencies                   *)
(* (update_dependencies) and SpecResolve (_resolve_project).               *)
(*                                                                         *)
(* Tasks are asyncio tasks on one event loop: the code between two awaits  *)
(* that suspend runs atomically, so every action below is one such block.  *)
(* Suspension points: a contended Lock.acquire(), session.get(...),        *)
(* resp.json(), and the yield of the update_packages generator.            *)
(***************************************************************************)
EXTENDS Integers, Sequences, FiniteSets, TLC

\* ------------------------------------------------------------------ bounds
NumTasks == 2       \* concurrent callers of query_package on one client
MaxCalls == 2       \* query_package calls made by each caller
MaxResources == 2   \* resources listed in one root index document
MaxReleases == 1    \* entries in one package-search response
MaxVersions == 2    \* versions carried by one package-search response
MaxProjects == 2    \* projects one scan iterates over
MaxPackages == 2    \* package references one scan visits
MaxDependencies == 2 \* mod dependencies one manifest declares
MaxItemGroups == 2  \* ItemGroup elements of one project file
MaxNodes == 2       \* elements inside the ItemGroups of one project file

\* --------------------------------------------------------------- constants
None == "None"                                   \* Python's None
SEARCH_QUERY_SERVICE_NAME == "SearchQueryService"

Tasks == 1..NumTasks
LinkerTask == 0          \* the task consuming Linker.update_packages
AllTasks == {LinkerTask} \cup Tasks

\* UpTo(S, n): the sequences over S of length at most n
UpTo(S, n) == UNION {[1..k -> S] : k \in 0..n}

\* --------------------------------------------------- the registry's answers
\* A resource of the root index: its "@type" and its "id" (None when the key
\* is missing, "" when it is empty).
ResourceTypes == {SEARCH_QUERY_SERVICE_NAME, "RegistrationsBaseUrl"}
ResourceIds == {None, "", "u1", "u2"}
Resources == [type : ResourceTypes, id : ResourceIds]
RootDocs == UpTo(Resources, MaxResources)

\* Python truthiness of a str / URL / None value
Truthy(x) == x # None /\ x # ""

\* semver.Version as <<major, minor, patch>>
Versions == {<<1, 1, 0>>, <<1, 2, 0>>, <<1, 2, 5>>, <<1, 3, 0>>}
DeclaredVersions == {<<1, 2, 0>>}
PackageNames == {"Foo"}

\* Version.__gt__: precedence by major, then minor, then patch
VersionGT(a, b) ==
    \/ a[1] > b[1]
    \/ a[1] = b[1] /\ a[2] > b[2]
    \/ a[1] = b[1] /\ a[2] = b[2] /\ a[3] > b[3]

\* A SearchQueryDataEntry is modelled by the one field the scan reads,
\* [versions |-> <<...>>].
\* DataOf(r, n): the lists of at most r entries carrying at most n versions
RECURSIVE DataOf(_, _)
DataOf(r, n) ==
    IF r = 0 THEN {<<>>}
    ELSE {<<>>} \cup
         UNION {{<<[versions |-> vs]>> \o d : d \in DataOf(r - 1, n - Len(vs))} :
                vs \in UpTo(Versions, n)}

\* SearchQueryResponse.data: the entries of one package-search response
SearchData == DataOf(MaxReleases, MaxVersions)

\* the responses offered to the plain callers of the client
ClientData ==
    LET a == [versions |-> <<<<1, 1, 0>>>>]
        b == [versions |-> <<<<1, 3, 0>>>>]
    IN {<<>>, <<a>>, <<a, b>>, <<b, a>>}

\* ------------------------------------------------------------------- state
VARIABLES
    catalog_query_url,  \* NuGetClient._catalog_query_url: None or the endpoint
    locked,             \* NuGetClient._catalog_lock is held
    waiters,            \* tasks suspended in _catalog_lock.acquire(), FIFO
    pc,                 \* where each task is suspended
    calls,              \* query_package calls each task has made
    fetches,            \* root-index fetches issued so far
    reqUrl,             \* the endpoint a task's search request was sent to
    result,             \* how each task's last query_package call ended
    obs,                \* what each task's current call has seen so far
    rootSeen,           \* the kinds of answer the root index has given so far
    projects,           \* Linker._projects
    global_dependencies,\* Linker._global_dependencies
    lpc,                \* where the update_packages generator stands
    visit,              \* index of the package reference being scanned
    pending,            \* results the scan of this reference still yields
    results,            \* the results the consumer has received, in order
    resultVisits,       \* for each received result, the reference it is for
    emitted,            \* results yielded for the current reference
    lerror,             \* the exception that ended the generator
    dependencies,       \* Manifest.dependencies of the linker's manifest
    dpc,                \* where the update_dependencies generator stands
    dvisit,             \* index of the dependency the generator is at
    dresults,           \* the results update_dependencies has yielded
    warnings,           \* the dependency ids a warning was logged for
    derror,             \* the exception that ended update_dependencies
    document,           \* the item groups of the project file being parsed
    rpc,                \* where _resolve_project stands
    rvisit,             \* index of the node _resolve_project is at
    packages,           \* project.packages of the project being built
    rerror,             \* the exception that ended _resolve_project
    root_index          \* the resources of a registry serving one document

cvars == <<catalog_query_url, locked, waiters, pc, calls, fetches, reqUrl,
           result, obs, rootSeen>>
lvars == <<projects, global_dependencies, lpc, visit, pending, results,
           resultVisits, emitted, lerror>>
dvars == <<dependencies, dpc, dvisit, dresults, warnings, derror>>
rvars == <<document, rpc, rvisit, packages, rerror>>
vars == <<cvars, lvars, dvars, rvars, root_index>>

NoResult == [kind |-> "none", data |-> <<>>, exc |-> None]
Returned(d) == [kind |-> "return_data", data |-> d, exc |-> None]
ReturnedNone == [kind |-> "return_none", data |-> <<>>, exc |-> None]
Raised(e) == [kind |-> "raise", data |-> <<>>, exc |-> e]

NoObs == [root |-> "none", search |-> "none", init |-> "none"]

\* ------------------------------------------------------- exception classes
\* errors.py: the class each exception class derives from
Parent(cls) ==
    CASE cls = "PackageQueryTimeoutError" -> "NuGetTimeoutError"
      [] cls = "ServiceTimeoutError" -> "NuGetTimeoutError"
      [] cls = "NuGetTimeoutError" -> "NuGetError"
      [] cls = "NuGetError" -> "Exception"
      [] cls = "AttributeError" -> "Exception"
      [] cls = "TypeError" -> "Exception"
      [] OTHER -> None

RECURSIVE IsInstance(_, _)
IsInstance(exc, cls) ==
    IF exc = cls THEN TRUE
    ELSE IF Parent(exc) = None THEN FALSE
    ELSE IsInstance(Parent(exc), cls)

\* --------------------------------------------------------- NuGetClient
\* the except clause left out: nothing is downgraded
Catches_Nothing(exc) == FALSE

\* the except clause naming the base class: every registry error is downgraded
Catches_NuGetError(exc) == IsInstance(exc, "NuGetError")

\* query_package's except clause: the exceptions it downgrades to None
Catches(exc) == IsInstance(exc, "PackageQueryTimeoutError")

\* how query_package ends when _query_package raises exc
EndRaise(exc) == IF Catches(exc) THEN ReturnedNone ELSE Raised(exc)

\* a lock that excludes nobody: acquire() always returns at once
CanAcquire_Always == TRUE

\* Lock.acquire() returns without suspending: the lock is free and nobody
\* is queued for it
CanAcquire == ~locked /\ waiters = <<>>

\* the lock taken without the re-check of the cache
CachedEndpoint_NoRecheck == FALSE

\* the re-check of the cache once the lock is held
CachedEndpoint == Truthy(catalog_query_url)

\* the loop going on to the next resource when the service entry has no id
RECURSIVE FirstService_SkipNoId(_)
FirstService_SkipNoId(resources) ==
    IF resources = <<>> THEN [kind |-> "exhausted", id |-> None]
    ELSE LET resource == Head(resources) IN
         IF resource.type # SEARCH_QUERY_SERVICE_NAME \/ ~Truthy(resource.id)
         THEN FirstService_SkipNoId(Tail(resources))
         ELSE [kind |-> "found", id |-> resource.id]

\* the loop running through all resources and keeping the last service entry
RECURSIVE FirstService_Last(_)
FirstService_Last(resources) ==
    IF resources = <<>> THEN [kind |-> "exhausted", id |-> None]
    ELSE LET resource == Head(resources)
             later == FirstService_Last(Tail(resources))
         IN IF later.kind # "exhausted" THEN later
            ELSE IF resource.type # SEARCH_QUERY_SERVICE_NAME THEN later
            ELSE IF ~Truthy(resource.id)
                 THEN [kind |-> "no_id", id |-> None]
                 ELSE [kind |-> "found", id |-> resource.id]

\* the loop over the root index's resources: how it ends
RECURSIVE FirstService(_)
FirstService(resources) ==
    IF resources = <<>> THEN [kind |-> "exhausted", id |-> None]
    ELSE LET resource == Head(resources) IN
         IF resource.type # SEARCH_QUERY_SERVICE_NAME
         THEN FirstService(Tail(resources))
         ELSE IF ~Truthy(resource.id)
              THEN [kind |-> "no_id", id |-> None]
              ELSE [kind |-> "found", id |-> resource.id]

\* what a root document holds, read off the document itself
DocKind(doc) ==
    LET S == {i \in 1..Len(doc) : doc[i].type = SEARCH_QUERY_SERVICE_NAME} IN
    IF S = {} THEN "no_service"
    ELSE LET first == CHOOSE i \in S : \A j \in S : i <= j IN
         IF doc[first].id \in {None, ""} THEN "no_id" ELSE "valid"

\* the request built and sent whatever the endpoint is
BuildRequest_Unchecked(t, u, o) ==
    /\ pc' = [pc EXCEPT ![t] = "searching"]
    /\ reqUrl' = [reqUrl EXCEPT ![t] = u]
    /\ result' = [result EXCEPT ![t] = NoResult]
    /\ obs' = [obs EXCEPT ![t] = o]

\* _query_package after the endpoint check: build the request URL from the
\* endpoint u and send the search request; None has no with_query
BuildRequest(t, u, o) ==
    IF u = None
    THEN /\ pc' = [pc EXCEPT ![t] = "idle"]
         /\ result' = [result EXCEPT ![t] = EndRaise("AttributeError")]
         /\ obs' = [obs EXCEPT ![t] = o]
         /\ UNCHANGED reqUrl
    ELSE /\ pc' = [pc EXCEPT ![t] = "searching"]
         /\ reqUrl' = [reqUrl EXCEPT ![t] = u]
         /\ result' = [result EXCEPT ![t] = NoResult]
         /\ obs' = [obs EXCEPT ![t] = o]

\* the early return at the re-check leaving without release()
AfterAcquire_NoRelease(t, o) ==
    IF CachedEndpoint
    THEN /\ locked' = TRUE
         /\ BuildRequest(t, catalog_query_url, [o EXCEPT !.init = "returned"])
         /\ UNCHANGED <<catalog_query_url, fetches>>
    ELSE /\ locked' = TRUE
         /\ fetches' = fetches + 1
         /\ pc' = [pc EXCEPT ![t] = "fetching"]
         /\ obs' = [obs EXCEPT ![t] = o]
         /\ result' = [result EXCEPT ![t] = NoResult]
         /\ UNCHANGED <<catalog_query_url, reqUrl>>

\* _init_catalog_query_url once the lock is held by t
AfterAcquire(t, o) ==
    IF CachedEndpoint
    THEN /\ locked' = FALSE
         /\ BuildRequest(t, catalog_query_url, [o EXCEPT !.init = "returned"])
         /\ UNCHANGED <<catalog_query_url, fetches>>
    ELSE /\ locked' = TRUE
         /\ fetches' = fetches + 1
         /\ pc' = [pc EXCEPT ![t] = "fetching"]
         /\ obs' = [obs EXCEPT ![t] = o]
         /\ result' = [result EXCEPT ![t] = NoResult]
         /\ UNCHANGED <<catalog_query_url, reqUrl>>

\* a task calls query_package and runs to its first suspension
QueryPackage(t) ==
    /\ pc[t] = "idle"
    /\ calls' = [calls EXCEPT ![t] = @ + 1]
    /\ UNCHANGED rootSeen
    /\ IF Truthy(catalog_query_url)
       THEN /\ BuildRequest(t, catalog_query_url, NoObs)
            /\ UNCHANGED <<catalog_query_url, locked, waiters, fetches>>
       ELSE IF CanAcquire
            THEN /\ AfterAcquire(t, NoObs)
                 /\ UNCHANGED waiters
            ELSE /\ waiters' = Append(waiters, t)
                 /\ pc' = [pc EXCEPT ![t] = "waiting"]
                 /\ obs' = [obs EXCEPT ![t] = NoObs]
                 /\ result' = [result EXCEPT ![t] = NoResult]
                 /\ UNCHANGED <<catalog_query_url, locked, fetches, reqUrl>>

\* the lock is handed to the longest-waiting task
Wake(t) ==
    /\ pc[t] = "waiting"
    /\ ~locked
    /\ waiters # <<>> /\ Head(waiters) = t
    /\ waiters' = Tail(waiters)
    /\ AfterAcquire(t, obs[t])
    /\ UNCHANGED <<calls, rootSeen>>

\* the root-index request is answered with its status
RootStatus(t, ok) ==
    /\ pc[t] = "fetching"
    /\ IF ~ok
       THEN /\ pc' = [pc EXCEPT ![t] = "idle"]
            /\ result' = [result EXCEPT ![t] = EndRaise("ServiceTimeoutError")]
            /\ obs' = [obs EXCEPT ![t] = [@ EXCEPT !.root = "bad_status",
                                                  !.init = "ServiceTimeoutError"]]
            /\ rootSeen' = rootSeen \cup {"bad_status"}
       ELSE /\ pc' = [pc EXCEPT ![t] = "root_json"]
            /\ obs' = [obs EXCEPT ![t] = [@ EXCEPT !.root = "ok"]]
            /\ UNCHANGED <<result, rootSeen>>
    /\ UNCHANGED <<catalog_query_url, locked, waiters, calls, fetches, reqUrl>>

\* the root document is decoded and its resources are searched
RootJson(t, doc) ==
    /\ pc[t] = "root_json"
    /\ LET f == FirstService(doc)
           o == [obs[t] EXCEPT !.root = DocKind(doc)]
       IN CASE f.kind = "found" ->
                 /\ catalog_query_url' = f.id
                 /\ locked' = FALSE
                 /\ BuildRequest(t, f.id, [o EXCEPT !.init = "returned"])
            [] f.kind = "no_id" ->
                 /\ locked' = FALSE
                 /\ pc' = [pc EXCEPT ![t] = "idle"]
                 /\ result' = [result EXCEPT ![t] = EndRaise("NuGetError")]
                 /\ obs' = [obs EXCEPT ![t] = [o EXCEPT !.init = "NuGetError"]]
                 /\ UNCHANGED <<catalog_query_url, reqUrl>>
            [] f.kind = "exhausted" ->
                 /\ BuildRequest(t, catalog_query_url,
                                 [o EXCEPT !.init = "returned"])
                 /\ UNCHANGED <<catalog_query_url, locked>>
    /\ rootSeen' = rootSeen \cup {DocKind(doc)}
    /\ UNCHANGED <<waiters, calls, fetches>>

\* the package-search request is answered with its status
SearchStatus(t, ok) ==
    /\ pc[t] = "searching"
    /\ IF ~ok
       THEN /\ pc' = [pc EXCEPT ![t] = "idle"]
            /\ result' = [result EXCEPT ![t] = EndRaise("PackageQueryTimeoutError")]
            /\ obs' = [obs EXCEPT ![t] = [@ EXCEPT !.search = "bad_status"]]
       ELSE /\ pc' = [pc EXCEPT ![t] = "search_json"]
            /\ obs' = [obs EXCEPT ![t] = [@ EXCEPT !.search = "ok"]]
            /\ UNCHANGED result
    /\ UNCHANGED <<catalog_query_url, locked, waiters, calls, fetches, reqUrl,
                   rootSeen>>

\* what response.json() hands back for a body carrying the entries `data`:
\* the dict the session's JSON decoder builds of a JSON object, or a value
\* of the type _query_package declares, a SearchQueryResponse
DecodedShapes == {"dict", "SearchQueryResponse"}

\* `response.data` in query_package, outside its try block: the attribute
\* of a SearchQueryResponse; a dict has no attribute of that name
ResponseData(shape, data) ==
    IF shape = "SearchQueryResponse" THEN Returned(data)
    ELSE Raised("AttributeError")

\* the search response is decoded and query_package returns its data
SearchJson(t, data) ==
    /\ pc[t] = "search_json"
    /\ pc' = [pc EXCEPT ![t] = "idle"]
    /\ \E shape \in DecodedShapes :
           result' = [result EXCEPT ![t] = ResponseData(shape, data)]
    /\ UNCHANGED <<catalog_query_url, locked, waiters, calls, fetches, reqUrl,
                   obs, rootSeen>>

\* NuGetClient.__init__
ClientInit ==
    /\ catalog_query_url = None
    /\ locked = FALSE
    /\ waiters = <<>>
    /\ pc = [t \in AllTasks |-> "idle"]
    /\ calls = [t \in AllTasks |-> 0]
    /\ fetches = 0
    /\ reqUrl = [t \in AllTasks |-> None]
    /\ result = [t \in AllTasks |-> NoResult]
    /\ obs = [t \in AllTasks |-> NoObs]
    /\ rootSeen = {}

\* a linker that tracks nothing and whose scan is never started
LinkerIdle ==
    /\ projects = <<>>
    /\ global_dependencies = <<>>
    /\ lpc = "new"
    /\ visit = 1
    /\ pending = <<>>
    /\ results = <<>>
    /\ resultVisits = <<>>
    /\ emitted = 0
    /\ lerror = None

\* update_dependencies never started, over a manifest without dependencies
DependenciesIdle ==
    /\ dependencies = <<>>
    /\ dpc = "new"
    /\ dvisit = 1
    /\ dresults = <<>>
    /\ warnings = <<>>
    /\ derror = None

\* no project file is being parsed
ResolveIdle ==
    /\ document = <<>>
    /\ rpc = "new"
    /\ rvisit = 1
    /\ packages = <<>>
    /\ rerror = None

\* a registry whose root index is not one fixed document: every fetch is
\* answered with a document of its own
AnyRootIndex == root_index = <<>>

\* ---------------------------------------- concurrent callers of one client
Init ==
    ClientInit /\ LinkerIdle /\ DependenciesIdle /\ ResolveIdle /\ AnyRootIndex

Call(t) ==
    /\ calls[t] < MaxCalls
    /\ QueryPackage(t)
    /\ UNCHANGED <<lvars, dvars, rvars, root_index>>
Woken(t) == Wake(t) /\ UNCHANGED <<lvars, dvars, rvars, root_index>>
RootAnswered(t) ==
    /\ pc[t] = "fetching"
    /\ \E ok \in BOOLEAN : RootStatus(t, ok)
    /\ UNCHANGED <<lvars, dvars, rvars, root_index>>
RootDecoded(t) ==
    /\ pc[t] = "root_json"
    /\ \E doc \in RootDocs : RootJson(t, doc)
    /\ UNCHANGED <<lvars, dvars, rvars, root_index>>
SearchAnswered(t) ==
    /\ pc[t] = "searching"
    /\ \E ok \in BOOLEAN : SearchStatus(t, ok)
    /\ UNCHANGED <<lvars, dvars, rvars, root_index>>
SearchDecoded(t) ==
    /\ pc[t] = "search_json"
    /\ \E data \in ClientData : SearchJson(t, data)
    /\ UNCHANGED <<lvars, dvars, rvars, root_index>>

Next ==
    \E t \in Tasks :
        \/ Call(t)
        \/ Woken(t)
        \/ RootAnswered(t)
        \/ RootDecoded(t)
        \/ SearchAnswered(t)
        \/ SearchDecoded(t)

Spec == Init /\ [][Next]_vars

\* ------------------------------------ callers followed through resolution
\* the same callers, each followed up to the point its search request is
\* sent or its call has failed
NextResolution ==
    \E t \in Tasks :
        \/ Call(t)
        \/ Woken(t)
        \/ RootAnswered(t)
        \/ RootDecoded(t)

\* an event loop that runs every task that can run and a registry that
\* answers every root-index request: a queued task is woken once the lock is
\* free, a fetch is answered, its body is decoded
Fairness ==
    \A t \in Tasks :
        /\ WF_vars(Woken(t))
        /\ WF_vars(RootAnswered(t))
        /\ WF_vars(RootDecoded(t))

SpecFair == Init /\ [][NextResolution]_vars /\ Fairness

\* ------------------------- one caller, a registry serving one root document
\* the caller of the client
Caller == CHOOSE t \in Tasks : \A u \in Tasks : t <= u

\* the root document is decoded: the resources the registry serves
RootServed(t) ==
    /\ pc[t] = "root_json"
    /\ RootJson(t, root_index)
    /\ UNCHANGED <<lvars, dvars, rvars, root_index>>

InitCatalog ==
    /\ ClientInit /\ LinkerIdle /\ DependenciesIdle /\ ResolveIdle
    /\ root_index \in RootDocs

NextCatalog ==
    \/ Call(Caller)
    \/ RootAnswered(Caller)
    \/ RootServed(Caller)
    \/ SearchAnswered(Caller)
    \/ SearchDecoded(Caller)

SpecCatalog == InitCatalog /\ [][NextCatalog]_vars

\* ------------------------------------------------------------------ Linker
\* NuGetPackage(name, version); a Project is modelled by its packages (its
\* project_file is read by no operation below)
PackageRefs == [name : PackageNames, version : DeclaredVersions]

\* package references told apart by their names
ScanNames == {"Foo", "Bar"}
ScanRefs == [name : ScanNames, version : DeclaredVersions]

\* ProjectsOf(refs, p, n): the lists of at most p projects declaring at most
\* n package references, taken from refs, between them
RECURSIVE ProjectsOf(_, _, _)
ProjectsOf(refs, p, n) ==
    IF p = 0 THEN {<<>>}
    ELSE {<<>>} \cup
         UNION {{<<[packages |-> ps]>> \o rest :
                     rest \in ProjectsOf(refs, p - 1, n - Len(ps))} :
                ps \in UpTo(refs, n)}

DependencyUpdateResult(dependency_id, current_version, previous_version) ==
    [dependency_id |-> dependency_id,
     current_version |-> current_version,
     previous_version |-> previous_version]

\* the projects update_packages iterates over
ScanList == projects \o global_dependencies

\* the outer loop walking the projects from the last one to the first
RECURSIVE FlattenPackages_Reversed(_)
FlattenPackages_Reversed(ps) ==
    IF ps = <<>> THEN <<>>
    ELSE FlattenPackages_Reversed(Tail(ps)) \o Head(ps).packages

\* the package references in the order the two outer loops visit them
RECURSIVE FlattenPackages(_)
FlattenPackages(ps) ==
    IF ps = <<>> THEN <<>>
    ELSE Head(ps).packages \o FlattenPackages(Tail(ps))

Packages == FlattenPackages(ScanList)

\* the loop without its break: every newer version of the release is yielded
RECURSIVE ScanVersions_NoBreak(_, _)
ScanVersions_NoBreak(versions, declared) ==
    IF versions = <<>> THEN <<>>
    ELSE IF VersionGT(Head(versions), declared)
         THEN <<Head(versions)>> \o ScanVersions_NoBreak(Tail(versions), declared)
         ELSE ScanVersions_NoBreak(Tail(versions), declared)

\* the loop looking for the highest newer version of the release
ScanVersions_Max(versions, declared) ==
    LET G == {i \in 1..Len(versions) : VersionGT(versions[i], declared)} IN
    IF G = {} THEN <<>>
    ELSE LET m == CHOOSE i \in G :
                      \A j \in G : ~VersionGT(versions[j], versions[i])
         IN <<versions[m]>>

\* the loop comparing with >= : a version equal to the declared one counts
RECURSIVE ScanVersions_OrEqual(_, _)
ScanVersions_OrEqual(versions, declared) ==
    IF versions = <<>> THEN <<>>
    ELSE IF ~VersionGT(declared, Head(versions))
         THEN <<Head(versions)>>
         ELSE ScanVersions_OrEqual(Tail(versions), declared)

\* the loop over one release's versions: the versions it yields a result for
RECURSIVE ScanVersions(_, _)
ScanVersions(versions, declared) ==
    IF versions = <<>> THEN <<>>
    ELSE IF VersionGT(Head(versions), declared)
         THEN <<Head(versions)>>
         ELSE ScanVersions(Tail(versions), declared)

\* the loop over the releases of one response, left once a newer release
\* was found
RECURSIVE ScanReleases(_, _)
ScanReleases(releases, declared) ==
    IF releases = <<>> THEN <<>>
    ELSE LET found == ScanVersions(Head(releases).versions, declared) IN
         IF found # <<>>
         THEN found
         ELSE ScanReleases(Tail(releases), declared)

\* the results one package reference yields against the entries `data`
YieldsFor(package, data) ==
    LET found == ScanReleases(data, package.version) IN
    [i \in 1..Len(found) |->
        DependencyUpdateResult(package.name, package.version, found[i])]

\* what is left of a bound of max once n items were counted twice
Room(max, n) == IF max >= 2 * n THEN max - 2 * n ELSE 0

\* Linker.__init__ and the lists create_linker assigns, for projects that
\* declare package references out of refs
LinkerInitOver(refs) ==
    /\ projects \in ProjectsOf(refs, MaxProjects, MaxPackages)
    /\ \E central \in ProjectsOf(refs, Room(MaxProjects, Len(projects)),
                                 Room(MaxPackages, Len(FlattenPackages(projects)))) :
           global_dependencies \in {<<>>, projects \o central}
    /\ Len(projects \o global_dependencies) <= MaxProjects
    /\ Len(FlattenPackages(projects \o global_dependencies)) <= MaxPackages
    /\ lpc = "iter"
    /\ visit = 1
    /\ pending = <<>>
    /\ results = <<>>
    /\ resultVisits = <<>>
    /\ emitted = 0
    /\ lerror = None

LinkerInit == LinkerInitOver(PackageRefs)

\* queries sent ahead: the next one goes out while the consumer still holds
\* the generator at a yield
AtLoopHead_Eager == lpc \in {"iter", "yielded"}

\* the generator stands at the head of the package loop: whatever came
\* before in the scan is done
AtLoopHead == lpc = "iter"

\* the generator reaches the next package reference and queries the registry
UpdatePackagesQuery ==
    /\ AtLoopHead
    /\ visit <= Len(Packages)
    /\ QueryPackage(LinkerTask)
    /\ lpc' = "awaiting"
    /\ emitted' = 0
    /\ UNCHANGED <<projects, global_dependencies, visit, pending, results,
                   resultVisits, lerror, dvars, rvars, root_index>>

\* the scan of one package reference is over: on to the next one, or the
\* generator ends once every project and package is exhausted
Advance ==
    /\ visit' = visit + 1
    /\ lpc' = IF visit + 1 <= Len(Packages) THEN "iter" ELSE "finished"

\* a linker without package references: the generator ends at once
UpdatePackagesEnd ==
    /\ lpc = "iter"
    /\ visit > Len(Packages)
    /\ lpc' = "finished"
    /\ UNCHANGED <<cvars, projects, global_dependencies, visit, pending,
                   results, resultVisits, emitted, lerror, dvars, rvars,
                   root_index>>

\* query_package has ended with r: the generator iterates over what it
\* returned, up to its first yield
Consume(r) ==
    /\ CASE r.kind = "raise" ->
              /\ lpc' = "raised"
              /\ lerror' = r.exc
              /\ UNCHANGED <<visit, pending, results, resultVisits, emitted>>
         [] r.kind = "return_none" ->
              /\ lpc' = "raised"
              /\ lerror' = "TypeError"
              /\ UNCHANGED <<visit, pending, results, resultVisits, emitted>>
         [] r.kind = "return_data" ->
              LET ys == YieldsFor(Packages[visit], r.data) IN
              /\ IF ys = <<>>
                 THEN /\ Advance
                      /\ UNCHANGED <<pending, results, resultVisits, emitted>>
                 ELSE /\ lpc' = "yielded"
                      /\ results' = Append(results, Head(ys))
                      /\ resultVisits' = Append(resultVisits, visit)
                      /\ emitted' = 1
                      /\ pending' = Tail(ys)
                      /\ UNCHANGED visit
              /\ UNCHANGED lerror
    /\ UNCHANGED <<projects, global_dependencies>>

\* the generator's task runs on when the request it awaits is answered
Resumed ==
    /\ IF pc'[LinkerTask] = "idle" THEN Consume(result'[LinkerTask])
       ELSE UNCHANGED lvars
    /\ UNCHANGED <<dvars, rvars, root_index>>

\* the consumer asks for the next result: the generator resumes after its yield
UpdatePackagesPull ==
    /\ lpc = "yielded"
    /\ IF pending # <<>>
       THEN /\ results' = Append(results, Head(pending))
            /\ resultVisits' = Append(resultVisits, visit)
            /\ emitted' = emitted + 1
            /\ pending' = Tail(pending)
            /\ UNCHANGED <<lpc, visit>>
       ELSE /\ Advance
            /\ UNCHANGED <<pending, results, resultVisits, emitted>>
    /\ UNCHANGED <<cvars, projects, global_dependencies, lerror, dvars, rvars,
                   root_index>>

LinkerRootAnswered ==
    /\ pc[LinkerTask] = "fetching"
    /\ \E ok \in BOOLEAN : RootStatus(LinkerTask, ok)
    /\ Resumed
LinkerRootDecoded ==
    /\ pc[LinkerTask] = "root_json"
    /\ \E doc \in RootDocs : RootJson(LinkerTask, doc)
    /\ Resumed
LinkerSearchAnswered ==
    /\ pc[LinkerTask] = "searching"
    /\ \E ok \in BOOLEAN : SearchStatus(LinkerTask, ok)
    /\ Resumed
LinkerSearchDecoded ==
    /\ pc[LinkerTask] = "search_json"
    /\ \E data \in SearchData : SearchJson(LinkerTask, data)
    /\ Resumed

InitLinker ==
    ClientInit /\ LinkerInit /\ DependenciesIdle /\ ResolveIdle /\ AnyRootIndex

NextLinker ==
    \/ UpdatePackagesQuery
    \/ UpdatePackagesEnd
    \/ UpdatePackagesPull
    \/ LinkerRootAnswered
    \/ LinkerRootDecoded
    \/ LinkerSearchAnswered
    \/ LinkerSearchDecoded

SpecLinker == InitLinker /\ [][NextLinker]_vars

\* ------------------------------- the scan over references with several names
\* the same generator over projects whose references differ by name, against
\* a registry answering out of the fixed responses
ScanSearchDecoded ==
    /\ pc[LinkerTask] = "search_json"
    /\ \E data \in ClientData : SearchJson(LinkerTask, data)
    /\ Resumed

InitScan ==
    /\ ClientInit /\ LinkerInitOver(ScanRefs)
    /\ DependenciesIdle /\ ResolveIdle /\ AnyRootIndex

NextScan ==
    \/ UpdatePackagesQuery
    \/ UpdatePackagesEnd
    \/ UpdatePackagesPull
    \/ LinkerRootAnswered
    \/ LinkerRootDecoded
    \/ LinkerSearchAnswered
    \/ ScanSearchDecoded

SpecScan == InitScan /\ [][NextScan]_vars

\* ------------------------------------------------ Linker.update_dependencies
\* ModDependency: its id and its version, a str or None (manifest/data.py)
DependencyIds == {"harmony", "hugslib"}
VersionStrings == {"1.2.0", "1.3.0"}
ModDependencies == [id : DependencyIds, version : VersionStrings \cup {None}]

ParsedVersion(v) == [kind |-> "version", version |-> v, exc |-> None]
ParseRaised(e) == [kind |-> "raise", version |-> <<>>, exc |-> e]

\* semver's Version.parse: the version a string spells; TypeError for a
\* value that is not a string, ValueError for a string that spells none
VersionParse(s) ==
    CASE s = None -> ParseRaised("TypeError")
      [] s = "1.2.0" -> ParsedVersion(<<1, 2, 0>>)
      [] s = "1.3.0" -> ParsedVersion(<<1, 3, 0>>)
      [] OTHER -> ParseRaised("ValueError")

\* Linker.__init__ with the manifest create_linker loaded
DependenciesInit ==
    /\ dependencies \in UpTo(ModDependencies, MaxDependencies)
    /\ dpc = "iter"
    /\ dvisit = 1
    /\ dresults = <<>>
    /\ warnings = <<>>
    /\ derror = None

\* the consumer asks for the next result: the generator runs the loop body
\* for the next dependency, up to its yield
UpdateDependenciesPull ==
    /\ dpc \in {"iter", "yielded"}
    /\ dvisit <= Len(dependencies)
    /\ LET dependency == dependencies[dvisit]
           parsed == VersionParse(dependency.version)
       IN /\ warnings' = IF dependency.version = None
                         THEN Append(warnings, dependency.id)
                         ELSE warnings
          /\ IF parsed.kind = "raise"
             THEN /\ dpc' = "raised"
                  /\ derror' = parsed.exc
                  /\ UNCHANGED <<dvisit, dresults>>
             ELSE /\ dpc' = "yielded"
                  /\ dresults' = Append(dresults,
                        DependencyUpdateResult(dependency.id, parsed.version,
                                               parsed.version))
                  /\ dvisit' = dvisit + 1
                  /\ UNCHANGED derror
    /\ UNCHANGED <<dependencies, cvars, lvars, rvars, root_index>>

\* the loop is through the manifest's dependencies: the generator ends
UpdateDependenciesEnd ==
    /\ dpc \in {"iter", "yielded"}
    /\ dvisit > Len(dependencies)
    /\ dpc' = "finished"
    /\ UNCHANGED <<dependencies, dvisit, dresults, warnings, derror, cvars,
                   lvars, rvars, root_index>>

InitDependencies ==
    ClientInit /\ LinkerIdle /\ DependenciesInit /\ ResolveIdle /\ AnyRootIndex

NextDependencies ==
    \/ UpdateDependenciesPull
    \/ UpdateDependenciesEnd

SpecDependencies == InitDependencies /\ [][NextDependencies]_vars

\* ------------------------------------------------- Linker._resolve_project
\* an element inside an ItemGroup: its tag and its Include and Version
\* attributes (None when the attribute is missing)
NodeTags == {"PackageReference", "Reference", "Compile"}
Nodes == [tag : NodeTags, include : {"Foo"}, version : {"1.2.0", None}]

\* ItemGroupsOf(g, n): the lists of at most g ItemGroups holding at most n
\* elements between them
RECURSIVE ItemGroupsOf(_, _)
ItemGroupsOf(g, n) ==
    IF g = 0 THEN {<<>>}
    ELSE {<<>>} \cup
         UNION {{<<[nodes |-> ns]>> \o rest :
                     rest \in ItemGroupsOf(g - 1, n - Len(ns))} :
                ns \in UpTo(Nodes, n)}

\* item_group.iter(): the ItemGroup element itself, then the elements
\* inside it in document order
ItemGroupIter(item_group) ==
    <<[tag |-> "ItemGroup", include |-> None, version |-> None]>>
        \o item_group.nodes

\* the nodes the two loops visit, in the order they visit them
RECURSIVE DocumentNodes(_)
DocumentNodes(groups) ==
    IF groups = <<>> THEN <<>>
    ELSE ItemGroupIter(Head(groups)) \o DocumentNodes(Tail(groups))

\* the filter of the inner loop: the node is passed over
Skipped(tag) == tag # "PackageReference" \/ tag # "Reference"

NuGetPackage(name, version) == [name |-> name, version |-> version]

\* _resolve_project opens the project file with an empty package list
ResolveInit ==
    /\ document \in ItemGroupsOf(MaxItemGroups, MaxNodes)
    /\ rpc = "iter"
    /\ rvisit = 1
    /\ packages = <<>>
    /\ rerror = None

\* one pass of the inner loop's body, over the next node
ResolveNode ==
    /\ rpc = "iter"
    /\ rvisit <= Len(DocumentNodes(document))
    /\ LET node == DocumentNodes(document)[rvisit]
           parsed == VersionParse(node.version)
       IN IF Skipped(node.tag)
          THEN /\ rvisit' = rvisit + 1
               /\ UNCHANGED <<rpc, packages, rerror>>
          ELSE IF parsed.kind = "raise"
          THEN /\ rpc' = "raised"
               /\ rerror' = parsed.exc
               /\ UNCHANGED <<rvisit, packages>>
          ELSE /\ packages' = Append(packages,
                                     NuGetPackage(node.include, parsed.version))
               /\ rvisit' = rvisit + 1
               /\ UNCHANGED <<rpc, rerror>>
    /\ UNCHANGED <<document, cvars, lvars, dvars, root_index>>

\* both loops are through: the project is returned
ResolveReturn ==
    /\ rpc = "iter"
    /\ rvisit > Len(DocumentNodes(document))
    /\ rpc' = "returned"
    /\ UNCHANGED <<document, rvisit, packages, rerror, cvars, lvars, dvars,
                   root_index>>

InitResolve ==
    ClientInit /\ LinkerIdle /\ DependenciesIdle /\ ResolveInit /\ AnyRootIndex

NextResolve ==
    \/ ResolveNode
    \/ ResolveReturn

SpecResolve == InitResolve /\ [][NextResolve]_vars

\* ================================================================= claims
InResolution(t) == pc[t] \in {"waiting", "fetching", "root_json"}

\* the versions of a response in the order the registry returned them
RECURSIVE FlatVersions(_)
FlatVersions(data) ==
    IF data = <<>> THEN <<>>
    ELSE Head(data).versions \o FlatVersions(Tail(data))

\* the positions of the versions of `flat` that are newer than `declared`
Newer(flat, declared) == {i \in 1..Len(flat) : VersionGT(flat[i], declared)}

\* C1: as long as the root index answers with success and a valid
\* SearchQueryService entry, callers racing through their first resolution
\* cause exactly one root-index fetch, and every caller that is past
\* resolution sent its search request to the one resolved endpoint.
C1_SingleFetch ==
    rootSeen \subseteq {"valid"} =>
        /\ fetches <= 1
        /\ \A t \in Tasks :
               (calls[t] > 0 /\ ~InResolution(t)) =>
                   /\ fetches = 1
                   /\ catalog_query_url # None
                   /\ reqUrl[t] = catalog_query_url

\* a caller that queued for the lock while the winner fetched, found the
\* endpoint cached at the re-check and proceeds with it, as does the winner
C1_Witness ==
    /\ rootSeen = {"valid"}
    /\ fetches = 1
    /\ \A t \in Tasks : calls[t] = 1 /\ pc[t] \in {"searching", "search_json"}
    /\ \E t \in Tasks : obs[t].init = "returned" /\ obs[t].root = "none"
    /\ \A t \in Tasks : reqUrl[t] = catalog_query_url

\* C2: whenever no resolution call is in progress, the catalog lock is free
\* (every exit path of a resolution that took the lock released it).
C2_LockFreeWhenQuiet ==
    (\A t \in AllTasks : ~InResolution(t)) => ~locked

\* C3: a non-success root-index answer raises ServiceTimeoutError and leaves
\* the endpoint unset, and a later call that needs the endpoint is not stuck:
\* a caller queued for the lock always has a resolution in flight ahead of
\* it, or the lock is free for it to take and fetch again.
C3_RetryAfterBadStatus ==
    /\ \A t \in AllTasks :
           (pc[t] = "idle" /\ obs[t].root = "bad_status") =>
               /\ result[t] = Raised("ServiceTimeoutError")
               /\ catalog_query_url = None
    /\ \A t \in AllTasks :
           pc[t] = "waiting" =>
               \/ ~locked
               \/ \E u \in AllTasks : pc[u] \in {"fetching", "root_json"}

\* C4: when the root document lists no SearchQueryService resource, the
\* resolution ends by raising a registry error to its caller.
C4_NoServiceRaises ==
    \A t \in AllTasks :
        obs[t].root = "no_service" => IsInstance(obs[t].init, "NuGetError")

\* C5: when the first SearchQueryService resource has no id (missing or
\* empty), the resolution raises NuGetError, and at that moment the endpoint
\* is unset and the catalog lock is free.
C5_NoIdRaises ==
    [][\A t \in AllTasks :
          (pc[t] = "root_json" /\ obs'[t].root = "no_id") =>
              /\ pc'[t] = "idle"
              /\ obs'[t].init = "NuGetError"
              /\ result'[t] = Raised("NuGetError")
              /\ catalog_query_url' = None
              /\ ~locked']_vars

C5_Witness ==
    \E t \in Tasks :
        /\ pc[t] = "idle"
        /\ obs[t].root = "no_id"
        /\ result[t] = Raised("NuGetError")
        /\ catalog_query_url = None
        /\ ~locked

\* C6: a package-search request answered with a non-success status makes
\* query_package return None; nothing is raised to its caller.
C6_SearchFailureIsNone ==
    \A t \in AllTasks :
        (pc[t] = "idle" /\ obs[t].search = "bad_status") =>
            result[t] = ReturnedNone

C6_Witness ==
    \E t \in Tasks :
        /\ pc[t] = "idle"
        /\ obs[t].search = "bad_status"
        /\ reqUrl[t] = catalog_query_url
        /\ result[t] = ReturnedNone

\* C7: a resolution failure during query_package (non-success root-index
\* status, or a SearchQueryService entry without id) reaches the caller as a
\* registry error, never as an absent result.
C7_ResolutionFailurePropagates ==
    \A t \in AllTasks :
        (pc[t] = "idle" /\ obs[t].root \in {"bad_status", "no_id"}) =>
            /\ result[t].kind = "raise"
            /\ IsInstance(result[t].exc, "NuGetError")
            /\ result[t].exc =
                   (IF obs[t].root = "bad_status" THEN "ServiceTimeoutError"
                    ELSE "NuGetError")

C7_Witness ==
    /\ \E t \in Tasks :
           /\ pc[t] = "idle" /\ obs[t].root = "no_id"
           /\ result[t] = Raised("NuGetError")
    /\ \E t \in Tasks :
           /\ pc[t] = "idle" /\ obs[t].root = "bad_status"
           /\ result[t] = Raised("ServiceTimeoutError")

\* C8: an absent registry answer (query_package returned None) for one
\* package reference does not end the scan with an error.
C8_AbsentQueryDoesNotAbort ==
    lpc = "raised" => result[LinkerTask].kind # "return_none"

RECURSIVE InSuppliedOrder(_)
InSuppliedOrder(ps) ==
    IF ps = <<>> THEN <<>>
    ELSE InSuppliedOrder(SubSeq(ps, 1, Len(ps) - 1)) \o ps[Len(ps)].packages

\* a is what is left of a prefix b[1..n] after dropping some of its items
RECURSIVE IsSubsequence(_, _, _)
IsSubsequence(a, b, n) ==
    IF a = <<>> THEN TRUE
    ELSE IF n = 0 THEN FALSE
    ELSE IF a[Len(a)] = b[n]
         THEN IsSubsequence(SubSeq(a, 1, Len(a) - 1), b, n - 1)
         ELSE IsSubsequence(a, b, n - 1)

\* the reference a result was emitted for
ResultRef(r) == [name |-> r.dependency_id, version |-> r.current_version]

C13_VersionlessIsInert ==
    /\ dpc # "raised"
    /\ \A i \in 1..(dvisit - 1) :
           dependencies[i].version = None =>
               /\ \E w \in 1..Len(warnings) : warnings[w] = dependencies[i].id
               /\ dresults[i].dependency_id = dependencies[i].id
               /\ dresults[i].current_version = dresults[i].previous_version

\* the results the dependencies ds that declare a version are to get
RECURSIVE VersionedResults(_)
VersionedResults(ds) ==
    IF ds = <<>> THEN <<>>
    ELSE IF Head(ds).version = None THEN VersionedResults(Tail(ds))
    ELSE <<DependencyUpdateResult(Head(ds).id,
                                  VersionParse(Head(ds).version).version,
                                  VersionParse(Head(ds).version).version)>>
         \o VersionedResults(Tail(ds))

\* C20: once update_dependencies is over, every dependency that declares a
\* version got its one result, these results stand in manifest order, and
\* every result carries the declared version as current_version and as
\* previous_version.
C20_OneResultPerVersioned ==
    /\ \A i \in 1..Len(dresults) :
           dresults[i].current_version = dresults[i].previous_version
    /\ dpc \in {"finished", "raised"} =>
           IsSubsequence(VersionedResults(dependencies), dresults, Len(dresults))

\* C14: the catalog endpoint is unset at construction and assigned at most
\* once: from a state in which it is set, every step leaves its value as it
\* is, whatever the callers and their interleaving, and no step taken while
\* it is set starts a root-index fetch.
C14_EndpointSetOnce ==
    /\ catalog_query_url = None
    /\ [][(catalog_query_url # None =>
               (catalog_query_url' = catalog_query_url /\ fetches' = fetches))
          /\ (catalog_query_url' # catalog_query_url =>
               (Truthy(catalog_query_url') /\ ~locked'))]_vars

\* the endpoint was resolved by one fetch; since then one caller passed the
\* re-check under the lock and another made a second call, neither fetching
C14_Witness ==
    /\ catalog_query_url # None
    /\ fetches = 1
    /\ \E t \in Tasks : obs[t].init = "returned" /\ obs[t].root = "none"
    /\ \E t \in Tasks :
           /\ calls[t] = 2
           /\ obs[t].init = "none"
           /\ pc[t] \in {"searching", "search_json"}
           /\ reqUrl[t] = catalog_query_url

\* C15: with the endpoint resolved and the package search answered with a
\* success status, query_package returns the entries of the response's data
\* to its caller; it does not raise.
C15_SuccessReturnsEntries ==
    \A t \in AllTasks :
        (pc[t] = "idle" /\ obs[t].search = "ok") =>
            result[t].kind = "return_data"

\* the Include attributes of the first n of `nodes` whose tag is one of the
\* accepted reference tags, in document order
RECURSIVE AcceptedIncludes(_, _)
AcceptedIncludes(nodes, n) ==
    IF n = 0 THEN <<>>
    ELSE IF nodes[n].tag \in {"PackageReference", "Reference"}
         THEN Append(AcceptedIncludes(nodes, n - 1), nodes[n].include)
         ELSE AcceptedIncludes(nodes, n - 1)

\* C16: while a project file is parsed, the package references collected so
\* far are those of the nodes visited so far whose tag is PackageReference
\* or Reference, one reference per such node in document order; nodes with
\* any other tag add nothing.
C16_AcceptedTagsBecomeReferences ==
    rpc \in {"iter", "returned"} =>
        [i \in 1..Len(packages) |-> packages[i].name] =
            AcceptedIncludes(DocumentNodes(document), rvisit - 1)

ServicePositions ==
    {i \in 1..Len(root_index) : root_index[i].type = SEARCH_QUERY_SERVICE_NAME}

\* C18: whenever the endpoint is set, the served root document lists a
\* SearchQueryService resource and the endpoint is the id of the first of
\* them in the order of the resources array: resources of other types before
\* it were skipped, and no resource after it, a SearchQueryService one
\* included, was used.
C18_FirstServiceSelected ==
    catalog_query_url # None =>
        /\ ServicePositions # {}
        /\ LET first == CHOOSE i \in ServicePositions :
                            \A j \in ServicePositions : i <= j
           IN /\ catalog_query_url = root_index[first].id
              /\ \A t \in Tasks :
                     pc[t] \in {"searching", "search_json"} =>
                         reqUrl[t] = root_index[first].id

\* the endpoint was taken from the second resource, the first one being of
\* another type and carrying an id of its own
C18_Witness ==
    /\ Len(root_index) = 2
    /\ root_index[1].type # SEARCH_QUERY_SERVICE_NAME
    /\ Truthy(root_index[1].id)
    /\ root_index[2].type = SEARCH_QUERY_SERVICE_NAME
    /\ catalog_query_url = root_index[2].id
    /\ root_index[1].id # root_index[2].id
    /\ pc[Caller] = "searching"

\* C19: a package-search request is sent only with the catalog endpoint set,
\* and to that endpoint: a call that found the endpoint unset sends its
\* request only after the resolution it invoked has returned, and when that
\* call fetched the root index itself, after the fetch was answered with
\* success and its document decoded; a request in flight always has the
\* endpoint set.
C19_SearchAfterResolution ==
    [][\A t \in AllTasks :
          /\ (pc[t] # "searching" /\ pc'[t] = "searching") =>
                 /\ Truthy(catalog_query_url')
                 /\ reqUrl'[t] = catalog_query_url'
                 /\ pc[t] \in {"idle", "waiting", "root_json"}
                 /\ pc[t] = "idle" => Truthy(catalog_query_url)
                 /\ pc[t] # "idle" => obs'[t].init = "returned"
                 /\ pc[t] = "root_json" => obs'[t].root = "valid"
          /\ pc'[t] \in {"searching", "search_json"} =>
                 /\ Truthy(catalog_query_url')
                 /\ reqUrl'[t] = catalog_query_url']_vars

\* a caller that fetched the root index itself has its search request in
\* flight, while another caller is still queued for the lock, nothing sent
C19_Witness ==
    \E t, u \in Tasks :
        /\ pc[t] = "searching"
        /\ obs[t].root = "valid"
        /\ obs[t].init = "returned"
        /\ reqUrl[t] = catalog_query_url
        /\ pc[u] = "waiting"
        /\ reqUrl[u] = None

\* the centrally declared projects: what create_linker resolved from the
\* central declaration file, when it found one
CentralProjects ==
    IF global_dependencies = <<>> THEN <<>>
    ELSE SubSeq(global_dependencies, Len(projects) + 1, Len(global_dependencies))

\* the references the tracked projects and the central file declare
DeclaredRefs == InSuppliedOrder(projects \o CentralProjects)

C22_ResolutionReturns ==
    \A t \in Tasks :
        /\ InResolution(t) ~>
              \/ ~(rootSeen \subseteq {"valid"})
              \/ /\ pc[t] = "searching"
                 /\ obs[t].init = "returned"
                 /\ Truthy(catalog_query_url)
                 /\ reqUrl[t] = catalog_query_url
                 /\ fetches = 1
                 /\ ~locked
        /\ pc[t] = "waiting" ~>
              \/ ~(rootSeen \subseteq {"valid"})
              \/ /\ pc[t] = "searching"
                 /\ obs[t].root = "none"
                 /\ ~locked

\* the winner fetched a valid document; a task that was queued meanwhile
\* has returned through the re-check, nobody is queued, the lock is free
C22_Witness ==
    \E t, u \in Tasks :
        /\ t # u
        /\ rootSeen = {"valid"}
        /\ obs[u].root = "valid"
        /\ obs[t].root = "none"
        /\ obs[t].init = "returned"
        /\ pc[t] = "searching"
        /\ waiters = <<>>
        /\ ~locked
        /\ fetches = 1

====
